---- MODULE Spec2Model ----
(***************************************************************************)
(* Verification model of the SRA data collection pipeline:                 *)
(*   RateLimiter and SRAAPIClient  (src/src/collectors/sra_api_client.py)  *)
(*   SRACollector                  (src/src/collectors/sra_collector.py)   *)
(*   DataLoader / FileManager      (src/src/utils/file_manager.py)         *)
(*                                                                         *)
(* Time is measured in ticks of half a second, so that the default         *)
(* delay_between_requests (0.5 s) and fractional retry delays are          *)
(* representable and int() truncation to whole seconds is observable.      *)
(***************************************************************************)
EXTENDS Integers, Sequences, FiniteSets, TLC

VARIABLES
    \* ---- RateLimiter (sra_api_client.py:23-53) ----
    now,                     \* the wall clock, time.time(), in ticks
    requests_per_period,     \* RateLimiter.requests_per_period
    period_seconds,          \* RateLimiter.period_seconds (held in ticks)
    delay_between_requests,  \* RateLimiter.delay_between_requests (ticks)
    request_timestamps,      \* RateLimiter.request_timestamps
    recorded,                \* history: every timestamp this limiter recorded
    rlLast,                  \* history: what the last wait_if_needed call saw
    \* ---- SRAAPIClient._make_request (sra_api_client.py:107-157) ----
    max_retries,             \* SRAAPIClient.max_retries
    retry_delay,             \* SRAAPIClient.retry_delay (ticks)
    json_error_retryable,    \* does response.json() raise a RequestException
    reqPc,                   \* "idle" | "loop" | "returned" | "raised"
    attempt,                 \* loop variable of _make_request
    physical,                \* physical requests issued by the current call
    responses,               \* history: per attempt, the response and the sleep
    result,                  \* outcome of the current _make_request call
    fetched,                 \* outcome of a direct get_all_organizations call
    \* ---- SRACollector.collect_organizations (sra_collector.py:273-357) ----
    runPc,                   \* position of the run
    phases,                  \* history: phases the current run has entered
    api_key,                 \* is data_sources.sra_api.api_key configured
    session,                 \* "none" | "open" | "closed"
    collection_stats,        \* SRACollector.collection_stats
    connected,               \* what test_connection returned in this run
    raw_data,                \* the body get_all_organizations returned
    organizations,           \* the fetched Organisations list
    processed,               \* processed_data['organizations']
    files,                   \* which output files exist on disk
    written,                 \* history: files written by the current run
    failedWrites,            \* history: writes of the current run that failed
    outcome,                 \* the dictionary collect_organizations returned
    runs,                    \* number of runs started
    resume,                  \* the resume argument of the current run
    saved_state,             \* what _load_collection_state gave the current run
    \* ---- SRACollector._process_organization_data and its data ----
    validation_rules,        \* DataValidator.validation_rules
    errors_log,              \* SRACollector.errors_log
    validation_summary,      \* processed_data['metadata'] of the last processing
    canonical,               \* content of the organizations_complete file
    \* ---- OutputGenerator (generate_outputs.py) ----
    pipePc,                  \* position of a direct use of the pipeline
    artifacts,               \* the files the output generator left on disk
    generations,             \* number of generate_all_outputs runs started
    \* ---- DataValidator called directly (validators.py) ----
    valPc,                   \* "idle" | "returned" | "raised"
    valCall,                 \* the method called and its argument
    valResult                \* what the method returned

rlVars  == <<now, requests_per_period, period_seconds, delay_between_requests,
             request_timestamps, recorded, rlLast>>
reqVars == <<max_retries, retry_delay, json_error_retryable, reqPc, attempt,
             physical, responses, result, fetched>>
runVars == <<runPc, phases, api_key, session, collection_stats, connected,
             raw_data, organizations,
             processed, files, written, failedWrites, outcome, runs>>
resumeVars == <<resume, saved_state>>
procVars == <<validation_rules, errors_log, validation_summary, canonical>>
outVars == <<pipePc, artifacts, generations>>
valVars == <<valPc, valCall, valResult>>
vars    == <<rlVars, reqVars, runVars, resumeVars, procVars, outVars, valVars>>

(***************************************************************************)
(* Units and bounds                                                        *)
(***************************************************************************)
TicksPerSecond == 2
SecondsPerMinute == 60

\* bounds of the explored behaviours
MaxCalls == 6            \* direct wait_if_needed calls explored
MaxRetriesBound == 2     \* largest configured max_retries explored
MaxRuns == 2             \* collection runs on one collector instance
MaxOrgs == 2             \* organisations in a dataset processed directly
MaxOffices == 2          \* offices in one organisation of such a dataset
MaxGenerations == 2      \* runs of the output generator on one directory
MaxText == 8             \* length of the texts given to validate_solicitor_number
MaxDigits == 10          \* digits after the first one of a phone number

Seconds(s) == s * TicksPerSecond

\* int(x) for a non-negative duration x held in ticks: whole seconds, in ticks
IntSeconds(x) == (x \div TicksPerSecond) * TicksPerSecond

RECURSIVE Pow2(_)
Pow2(n) == IF n = 0 THEN 1 ELSE 2 * Pow2(n - 1)

RECURSIVE SumSeq(_)
SumSeq(s) == IF s = <<>> THEN 0 ELSE Head(s) + SumSeq(Tail(s))

(***************************************************************************)
(* RateLimiter                                                             *)
(***************************************************************************)
NoCall == [blocked |-> FALSE, delayed |-> FALSE, oldest |-> 0, called |-> 0]

\* RateLimiter.__init__: period_seconds = period_minutes * 60
PeriodSeconds(period_minutes) == Seconds(period_minutes * SecondsPerMinute)

\* line 37-38: drop the timestamps outside the rate limit period
Prune(ts, t) == SelectSeq(ts, LAMBDA x : x > t - period_seconds)

\* a faulty variant of AtLimit: an off-by-one comparison
AtLimitStrict(ts) == Len(ts) > requests_per_period

\* line 41: the pruned list has reached the limit
AtLimit(ts) == Len(ts) >= requests_per_period

\* line 41-45: the sleep that waits for the oldest timestamp to leave the window
RateWindowSleep(ts, t) ==
    IF AtLimit(ts)
    THEN LET sleep_time == period_seconds - (t - ts[1]) + Seconds(1)
         IN  IF sleep_time > 0 THEN sleep_time ELSE 0
    ELSE 0

\* line 48-50: the minimum delay, computed from the `now` read at line 34
MinDelaySleep(ts, t) ==
    IF ts # <<>> /\ (t - ts[Len(ts)]) < delay_between_requests
    THEN delay_between_requests - (t - ts[Len(ts)])
    ELSE 0

\* wait_if_needed called at clock value t; `over` is the time that passes in
\* the call beyond the requested sleeps (time.sleep never returns early).
\* `after` is the time the caller spends before its action ends.
WaitIfNeeded(t, over, after) ==
    LET ts == Prune(request_timestamps, t)
        stamp == t + RateWindowSleep(ts, t) + MinDelaySleep(ts, t) + over
    IN  /\ request_timestamps' = Append(ts, stamp)
        /\ recorded' = Append(recorded, stamp)
        /\ rlLast' = [blocked |-> AtLimit(ts),
                      delayed |-> MinDelaySleep(ts, t) > 0,
                      oldest  |-> IF ts = <<>> THEN 0 ELSE ts[1],
                      called  |-> t]
        /\ now' = stamp + after

OvershootChoices == {0, 1}
GapChoices == {0, period_seconds - 1, period_seconds}

\* a caller invokes wait_if_needed `gap` ticks after the previous call returned
RLCall(gap, over) ==
    /\ Len(recorded) < MaxCalls
    /\ WaitIfNeeded(now + gap, over, 0)
    /\ UNCHANGED <<requests_per_period, period_seconds, delay_between_requests>>
    /\ UNCHANGED <<reqVars, runVars, resumeVars, procVars, outVars, valVars>>

(***************************************************************************)
(* Records of the registry and the validation engine (validators.py)       *)
(*                                                                         *)
(* A text is a sequence of one-character strings. A JSON value is held as  *)
(* its type and its text: the characters of a string, the decimal digits   *)
(* of a non-zero integer.                                                  *)
(***************************************************************************)
Val(t, s) == [t |-> t, s |-> s]
Absent == Val("absent", <<>>)        \* the key is not in the mapping
Null == Val("null", <<>>)            \* JSON null, Python None
Str(s) == Val("string", s)
Number(digits) == Val("integer", digits)

\* an office; mapping = FALSE is a list item that is JSON null
Office(id, isMapping, postcode) ==
    [OfficeId |-> id, mapping |-> isMapping, Postcode |-> postcode]

\* an organisation; OfficesType is the JSON type of its Offices value
\* ("absent", "null", "integer" for a non-zero number, "list") and Offices
\* the items when that value is a list
OrgWith(id, isMapping, sra, officesType, offices) ==
    [Id |-> id, mapping |-> isMapping, SraNumber |-> sra,
     OfficesType |-> officesType, Offices |-> offices]

PostcodeSW1A == <<"S", "W", "1", "A", " ", "1", "A", "A">>
PostcodeLower == <<" ", "m", "1", " ", "1", "a", "a">>
PostcodeBAD == <<"B", "A", "D">>
Sra123456 == <<"1", "2", "3", "4", "5", "6">>
Sra12 == <<"1", "2">>

GoodOffice(id) == Office(id, TRUE, Str(PostcodeSW1A))

\* a well-formed organisation with one well-formed office
Org(id, isMapping) ==
    OrgWith(id, isMapping, Str(Sra123456), "list", <<GoodOffice(id)>>)

\* record[field] of a mapping, Absent when the key is missing
Field(record, record_type, field) ==
    IF record_type = "sra_organization"
    THEN CASE field = "Id" -> Val("integer", <<>>)
           [] field = "SraNumber" -> record.SraNumber
           [] field = "Offices" -> Val(record.OfficesType, <<>>)
           [] OTHER -> Absent
    ELSE CASE field = "OfficeId" -> Val("integer", <<>>)
           [] field = "Postcode" -> record.Postcode
           [] OTHER -> Absent

Digits == {"0", "1", "2", "3", "4", "5", "6", "7", "8", "9"}
UpperCase == <<"A", "B", "C", "D", "E", "F", "G", "H", "I", "J", "K", "L", "M",
               "N", "O", "P", "Q", "R", "S", "T", "U", "V", "W", "X", "Y", "Z">>
LowerCase == <<"a", "b", "c", "d", "e", "f", "g", "h", "i", "j", "k", "l", "m",
               "n", "o", "p", "q", "r", "s", "t", "u", "v", "w", "x", "y", "z">>
Whitespace == {" ", "\t", "\n"}

IsDigit(c) == c \in Digits
IsUpper(c) == \E i \in 1..Len(UpperCase) : UpperCase[i] = c
IsSpace(c) == c \in Whitespace

\* str.upper() of one character
ToUpper(c) ==
    IF \E i \in 1..Len(LowerCase) : LowerCase[i] = c
    THEN UpperCase[CHOOSE i \in 1..Len(LowerCase) : LowerCase[i] = c]
    ELSE c

Upper(s) == [i \in 1..Len(s) |-> ToUpper(s[i])]

\* str.strip()
RECURSIVE Strip(_)
Strip(s) ==
    IF s = <<>> THEN s
    ELSE IF IsSpace(Head(s)) THEN Strip(Tail(s))
    ELSE IF IsSpace(s[Len(s)]) THEN Strip(SubSeq(s, 1, Len(s) - 1))
    ELSE s

\* str(value) as validate_record uses it
StrOf(v) == IF v.t = "null" THEN <<"N", "o", "n", "e">> ELSE v.s

\* bool(value): None, "" and [] are false
Truthy(v) == v.t \notin {"absent", "null"} /\ ~(v.t = "string" /\ v.s = <<>>)

\* validators.py:43-47: ^[A-Z]{1,2}\d[A-Z\d]?\s*\d[A-Z]{2}$ on the upper-cased,
\* stripped text (a letters, b optional characters, c blanks)
ValidatePostcodeUk(postcode) ==
    LET u == Strip(Upper(postcode))
    IN  \E a \in 1..2, b \in 0..1 :
            LET c == Len(u) - (a + 1 + b + 3)
            IN  /\ c >= 0
                /\ \A i \in 1..a : IsUpper(u[i])
                /\ IsDigit(u[a + 1])
                /\ b = 1 => (IsUpper(u[a + 2]) \/ IsDigit(u[a + 2]))
                /\ \A i \in (a + b + 2)..(a + b + 1 + c) : IsSpace(u[i])
                /\ IsDigit(u[a + b + c + 2])
                /\ IsUpper(u[a + b + c + 3])
                /\ IsUpper(u[a + b + c + 4])

AllDigits(s) == \A i \in 1..Len(s) : IsDigit(s[i])

\* validators.py:49-53: ^\d{6,7}$ ; $ also matches before a final newline
ValidateSolicitorNumber(number) ==
    \/ Len(number) \in {6, 7} /\ AllDigits(number)
    \/ /\ Len(number) \in {7, 8}
       /\ number[Len(number)] = "\n"
       /\ AllDigits(SubSeq(number, 1, Len(number) - 1))

\* validators.py:32: re.sub(r'[\s\-\(\)]', '', phone)
Cleaned(phone) ==
    SelectSeq(phone, LAMBDA c : ~(IsSpace(c) \/ c \in {"-", "(", ")"}))

\* validators.py:35-39: the three patterns ^(\+44|0044|44)?[f]\d{lo,hi}$ by
\* the set f of their first digit and the number lo..hi of digits after it
PhonePrefixes == {<<>>, <<"+", "4", "4">>, <<"0", "0", "4", "4">>, <<"4", "4">>}
PhonePatterns ==
    <<[first |-> Digits \ {"0"}, lo |-> 8, hi |-> 9],
      [first |-> {"7", "8"}, lo |-> 9, hi |-> 9],
      [first |-> {"1", "2"}, lo |-> 8, hi |-> 8]>>

StartsWith(s, p) == Len(s) >= Len(p) /\ SubSeq(s, 1, Len(p)) = p

\* re.match of one pattern; the cleaned text holds no newline for $ to skip
MatchesPhone(s, pattern) ==
    \E p \in PhonePrefixes :
        /\ StartsWith(s, p)
        /\ LET rest == SubSeq(s, Len(p) + 1, Len(s))
           IN  /\ Len(rest) - 1 \in pattern.lo..pattern.hi
               /\ rest[1] \in pattern.first
               /\ AllDigits(Tail(rest))

\* a validator that also takes the national form, with a leading 0
ValidatePhoneUkNational(phone) ==
    \E k \in 1..Len(PhonePatterns) :
        \/ MatchesPhone(Cleaned(phone), PhonePatterns[k])
        \/ /\ StartsWith(Cleaned(phone), <<"0">>)
           /\ MatchesPhone(Tail(Cleaned(phone)), PhonePatterns[k])

\* validators.py:29-41: validate_phone_uk
ValidatePhoneUk(phone) ==
    \E k \in 1..Len(PhonePatterns) : MatchesPhone(Cleaned(phone), PhonePatterns[k])

\* validators.py:71-85: a required field is present and not empty
RequiredFieldOk(v) ==
    /\ v.t # "absent"
    /\ v.t # "null"
    /\ ~(v.t = "string" /\ Strip(v.s) = <<>>)

\* validators.py:87-118: isinstance(data[field], type_map[expected_type]);
\* a missing field and an unknown type name pass
FieldTypeOk(v, expected_type) ==
    \/ v.t = "absent"
    \/ expected_type \notin {"string", "integer", "number", "boolean", "list", "dict"}
    \/ expected_type = "string" /\ v.t = "string"
    \/ expected_type \in {"integer", "number"} /\ v.t = "integer"
    \/ expected_type = "list" /\ v.t = "list"

\* validation.<record_type> of settings.yaml
RuleSet(required_fields, field_types) ==
    [configured |-> TRUE, required_fields |-> required_fields,
     field_types |-> field_types]
NoRuleSet == [configured |-> FALSE, required_fields |-> <<>>, field_types |-> <<>>]

\* settings without a validation section, and settings that require the
\* identifying fields and declare the types of Offices and Postcode
RulesNone == [sra_organization |-> NoRuleSet, sra_office |-> NoRuleSet]
RulesStrict ==
    [sra_organization |-> RuleSet(<<"Id", "SraNumber">>, <<<<"Offices", "list">>>>),
     sra_office |-> RuleSet(<<"OfficeId", "Postcode">>, <<<<"Postcode", "string">>>>)]
\* rules for offices that require nothing
RulesLax ==
    [sra_organization |-> RuleSet(<<"Id">>, <<>>),
     sra_office |-> RuleSet(<<>>, <<>>)]

ValidationResult(raised, errors, warnings) ==
    [raised |-> raised, valid |-> ~raised /\ errors = <<>>,
     errors |-> errors, warnings |-> warnings]

\* validators.py:131-145: the errors of the required-field and type checks
RequiredErrors(record, record_type, required_fields) ==
    LET bad == SelectSeq(required_fields,
                   LAMBDA f : ~RequiredFieldOk(Field(record, record_type, f)))
    IN  [i \in 1..Len(bad) |-> <<"Missing or empty required field", bad[i]>>]

TypeErrors(record, record_type, field_types) ==
    LET bad == SelectSeq(field_types,
                   LAMBDA ft : ~FieldTypeOk(Field(record, record_type, ft[1]), ft[2]))
    IN  [i \in 1..Len(bad) |-> <<"Invalid type for field", bad[i][1]>>]

\* validators.py:153-163: the checks of an organisation
OrganizationErrors(record) ==
    (IF record.SraNumber.t # "absent"
        /\ ~ValidateSolicitorNumber(StrOf(record.SraNumber))
     THEN <<<<"Invalid SRA organization number format", "SraNumber">>>>
     ELSE <<>>)
    \o (IF record.OfficesType \notin {"absent", "list"}
        THEN <<<<"Offices field must be a list", "Offices">>>>
        ELSE <<>>)

OrganizationWarnings(record) ==
    IF record.OfficesType = "list" /\ record.Offices = <<>>
    THEN <<"Organization has no offices">> ELSE <<>>

\* a faulty variant of OfficeErrors: a malformed postcode is an error
OfficeErrorsPostcode(record) ==
    IF record.Postcode.t = "string" /\ Truthy(record.Postcode)
       /\ ~ValidatePostcodeUk(record.Postcode.s)
    THEN <<<<"Invalid postcode format", "Postcode">>>> ELSE <<>>

\* validators.py:165-179: the checks of an office add warnings, never errors
OfficeErrors(record) == <<>>

OfficeWarnings(record) ==
    IF record.Postcode.t = "string" /\ Truthy(record.Postcode)
       /\ ~ValidatePostcodeUk(record.Postcode.s)
    THEN <<"Invalid postcode format">> ELSE <<>>

\* validators.py:120-211: validate_record. Without rules for the type the
\* record is valid unseen. With rules, a record that is no mapping makes
\* `in` or .get raise (TypeError, AttributeError), and so does a truthy
\* Postcode that is no string (.upper)
ValidateRecord(record, record_type, rules) ==
    LET cfg == IF record_type = "sra_organization"
               THEN rules.sra_organization ELSE rules.sra_office
    IN  IF ~cfg.configured THEN ValidationResult(FALSE, <<>>, <<>>)
        ELSE IF ~record.mapping THEN ValidationResult(TRUE, <<>>, <<>>)
        ELSE IF record_type = "sra_office" /\ Truthy(record.Postcode)
                /\ record.Postcode.t # "string"
        THEN ValidationResult(TRUE, <<>>, <<>>)
        ELSE ValidationResult(FALSE,
                 RequiredErrors(record, record_type, cfg.required_fields)
                 \o TypeErrors(record, record_type, cfg.field_types)
                 \o (IF record_type = "sra_organization"
                     THEN OrganizationErrors(record) ELSE OfficeErrors(record)),
                 IF record_type = "sra_organization"
                 THEN OrganizationWarnings(record) ELSE OfficeWarnings(record))

(***************************************************************************)
(* HTTP responses                                                          *)
(***************************************************************************)

Body(isJson, isObject, keys, count, orgs) ==
    [json |-> isJson, object |-> isObject, keys |-> keys,
     Count |-> count, Organisations |-> orgs]

NoBody       == Body(FALSE, FALSE, {}, 0, <<>>)
BodyNotJson  == Body(FALSE, FALSE, {}, 0, <<>>)
BodyList     == Body(TRUE, FALSE, {}, 0, <<>>)
BodyNoCount  == Body(TRUE, TRUE, {"Organisations"}, 0, <<Org(1, TRUE)>>)
BodyNoOrgs   == Body(TRUE, TRUE, {"Count"}, 1, <<>>)
BodyEmpty    == Body(TRUE, TRUE, {"Count", "Organisations"}, 0, <<>>)
BodyTwo      == Body(TRUE, TRUE, {"Count", "Organisations"}, 2,
                     <<Org(1, TRUE), Org(2, TRUE)>>)
BodyBadItem  == Body(TRUE, TRUE, {"Count", "Organisations"}, 2,
                     <<Org(1, TRUE), Org(2, FALSE)>>)
Bodies == {BodyNotJson, BodyList, BodyNoCount, BodyNoOrgs, BodyEmpty,
           BodyTwo, BodyBadItem}

\* Retry-After header values: absent, whole seconds, or text int() rejects
IntLiteral == ("0" :> 0) @@ ("2" :> 2) @@ ("-1" :> -1)
RetryAfterHeaders == {"absent", "2", "-1", "Wed, 04 Nov 2026 12:00:00 GMT"}

OtherStatuses == {304, 404, 500}
NetworkFailures == {"Timeout", "ConnectionError"}

Resp(kind, status, header, body) ==
    [kind |-> kind, status |-> status, retry_after |-> header, body |-> body]

Responses ==
    {Resp("response", 200, "absent", b) : b \in Bodies}
    \cup {Resp("response", 429, h, NoBody) : h \in RetryAfterHeaders}
    \cup {Resp("response", s, "absent", NoBody) : s \in {401, 403} \cup OtherStatuses}
    \cup {Resp(f, 0, "absent", NoBody) : f \in NetworkFailures}

(***************************************************************************)
(* SRAAPIClient._make_request                                              *)
(***************************************************************************)
NoResult == [kind |-> "none", data |-> NoBody, error |-> ""]
Returned(data) == [kind |-> "data", data |-> data, error |-> ""]
Raised(err) == [kind |-> "error", data |-> NoBody, error |-> err]

Step(next, slept, err) == [next |-> next, slept |-> slept, error |-> err]

\* a faulty variant of IsAuthFailure: 401 handled like any other status
IsAuthFailureOnly403(status) == status = 403

\* line 138-142: the statuses that raise ValueError
IsAuthFailure(status) == status \in {401, 403}

\* line 146: requests' raise_for_status raises HTTPError for 4xx and 5xx only
RaiseForStatus(status) == status >= 400 /\ status < 600

\* a faulty variant of BackoffWait: a constant delay
BackoffWaitConstant(k) == retry_delay

\* line 153: wait_time = self.retry_delay * (2 ** attempt)
BackoffWait(k) == retry_delay * Pow2(k)

\* line 149: if attempt == self.max_retries
RetriesExhausted(k) == k = max_retries

\* line 148-155: the handler of requests.exceptions.RequestException
GenericRetry(k, err) ==
    IF RetriesExhausted(k)
    THEN Step("raise", <<>>, err)
    ELSE Step("continue", <<BackoffWait(k)>>, "")

\* a faulty variant of RetryAfterWait: the header is ignored
RetryAfterWaitNoHeader(header) == IntSeconds(retry_delay)

\* line 133: int(response.headers.get('Retry-After', self.retry_delay)), in
\* ticks; only called for a header that is absent or an integer literal
RetryAfterWait(header) ==
    IF header = "absent" THEN IntSeconds(retry_delay)
    ELSE Seconds(IntLiteral[header])

\* line 132-136: int() raises ValueError for text that is no integer literal,
\* time.sleep raises ValueError for a negative number
Handle429(header) ==
    IF header # "absent" /\ header \notin DOMAIN IntLiteral
    THEN Step("raise", <<>>, "ValueError")
    ELSE IF RetryAfterWait(header) < 0
    THEN Step("raise", <<>>, "ValueError")
    ELSE Step("continue", <<RetryAfterWait(header)>>, "")

\* line 127-130: response.json() of a body that is no JSON raises
\* JSONDecodeError, a RequestException in some versions of requests and a
\* plain ValueError in others
Handle200(body, k) ==
    IF body.json THEN Step("return", <<>>, "")
    ELSE IF json_error_retryable THEN GenericRetry(k, "JSONDecodeError")
    ELSE Step("raise", <<>>, "JSONDecodeError")

\* line 112-155: the body of one loop iteration, given what the request got
Handle(resp, k) ==
    IF resp.kind # "response" THEN GenericRetry(k, resp.kind)
    ELSE IF resp.status = 200 THEN Handle200(resp.body, k)
    ELSE IF resp.status = 429 THEN Handle429(resp.retry_after)
    ELSE IF IsAuthFailure(resp.status) THEN Step("raise", <<>>, "ValueError")
    ELSE IF RaiseForStatus(resp.status) THEN GenericRetry(k, "HTTPError")
    ELSE Step("continue", <<>>, "")

\* a faulty variant of LoopEnds: range(max_retries) instead of range(max_retries + 1)
LoopEndsEarly(k) == k + 1 >= max_retries

\* line 111: attempt k is the last value of range(self.max_retries + 1)
LoopEnds(k) == k = max_retries

\* _make_request is entered: the loop starts at attempt 0
EnterMakeRequest ==
    /\ reqPc' = "loop"
    /\ attempt' = 0
    /\ physical' = 0
    /\ responses' = <<>>
    /\ result' = NoResult

\* the frame of a finished _make_request call is discarded by its caller
LeaveMakeRequest ==
    /\ reqPc' = "idle"
    /\ attempt' = 0
    /\ physical' = 0
    /\ responses' = <<>>
    /\ result' = NoResult

\* one iteration of the loop of line 111: rate limiting, the physical
\* request, and the handling of what came back, including its sleep (the
\* clock advances by the sleeps alone: the request itself takes no time)
Attempt(resp) ==
    /\ reqPc = "loop"
    /\ LET h == Handle(resp, attempt)
       IN  /\ WaitIfNeeded(now, 0, SumSeq(h.slept))
           /\ physical' = physical + 1
           /\ responses' = Append(responses, [resp |-> resp, slept |-> h.slept])
           /\ IF h.next = "return"
              THEN /\ reqPc' = "returned"
                   /\ result' = Returned(resp.body)
                   /\ attempt' = attempt
              ELSE IF h.next = "raise"
              THEN /\ reqPc' = "raised"
                   /\ result' = Raised(h.error)
                   /\ attempt' = attempt
              ELSE IF LoopEnds(attempt)
              THEN \* line 157: the loop ran out
                   /\ reqPc' = "raised"
                   /\ result' = Raised("Maximum retries exceeded")
                   /\ attempt' = attempt
              ELSE /\ reqPc' = "loop"
                   /\ attempt' = attempt + 1
                   /\ result' = result
    /\ UNCHANGED <<requests_per_period, period_seconds, delay_between_requests>>
    /\ UNCHANGED <<max_retries, retry_delay, json_error_retryable, fetched>>
    /\ UNCHANGED <<runVars, resumeVars, procVars, outVars, valVars>>

(***************************************************************************)
(* SRAAPIClient.get_all_organizations and test_connection                  *)
(***************************************************************************)
\* line 166-180: data.get(...) raises AttributeError when data is no mapping;
\* a mapping is returned as it is, whatever keys it has
GetAllOutcome(r) ==
    IF r.kind = "error" THEN r
    ELSE IF ~r.data.object THEN Raised("AttributeError")
    ELSE r

\* line 184-205: True only for a mapping that has Count and Organisations
TestConnectionResult(r) ==
    /\ GetAllOutcome(r).kind = "data"
    /\ GetAllOutcome(r).data.object
    /\ {"Count", "Organisations"} \subseteq GetAllOutcome(r).data.keys

\* a caller outside the collector calls get_all_organizations
CallGetAll ==
    /\ reqPc = "idle"
    /\ fetched.kind = "none"
    /\ runPc = "idle"
    /\ EnterMakeRequest
    /\ UNCHANGED <<rlVars, max_retries, retry_delay, json_error_retryable, fetched>>
    /\ UNCHANGED <<runVars, resumeVars, procVars, outVars, valVars>>

\* _make_request has ended: get_all_organizations returns or raises
GetAllReturn ==
    /\ reqPc \in {"returned", "raised"}
    /\ runPc = "idle"
    /\ fetched.kind = "none"
    /\ fetched' = GetAllOutcome(result)
    /\ UNCHANGED <<rlVars, max_retries, retry_delay, json_error_retryable, reqPc,
                   attempt, physical, responses, result>>
    /\ UNCHANGED <<runVars, resumeVars, procVars, outVars, valVars>>

(***************************************************************************)
(* SRACollector                                                            *)
(***************************************************************************)
FileRoles == {"main_data", "metadata", "state", "report"}

\* how one DataLoader.save_json call can end: written; failed before the file
\* was opened (the file is as it was); failed after it was opened for
\* writing (a truncated file is left behind)
WriteOutcomes == {"ok", "unopened", "partial"}

\* file_manager.py:143-154: the file after save_json ended with outcome w
AfterWrite(before, w) ==
    IF w = "ok" THEN "ok" ELSE IF w = "partial" THEN "partial" ELSE before

\* file_manager.py:152-154: save_json catches every exception, returns False
SaveJsonRaises(w) == FALSE

NoStats == [start_time |-> -1, end_time |-> -1, total_organizations |-> 0,
            organizations_processed |-> 0, total_offices |-> 0,
            offices_processed |-> 0, errors |-> 0, validation_errors |-> 0,
            api_calls |-> 0, data_size_bytes |-> 0]

NoOutcome == [returned |-> FALSE, success |-> FALSE, error |-> "",
              organizations_collected |-> 0, offices_collected |-> 0]

\* sra_collector.py:107-121: processed_data['metadata'] before the loop
NoSummary == [total_offices |-> 0, valid_organizations |-> 0,
              invalid_organizations |-> 0, valid_offices |-> 0,
              invalid_offices |-> 0, validation_errors |-> <<>>]

\* the state _process_organization_data works on: processed_data, the
\* collector's counters and log, the valid_offices of the organisation in
\* hand, whether an exception is on its way to the handler of line 177
\* (thrown) and whether one has left the function (raised)
ProcessingState(stats, log) ==
    [organizations |-> <<>>, summary |-> NoSummary, stats |-> stats,
     errors_log |-> log, valid_offices |-> <<>>, thrown |-> FALSE,
     raised |-> FALSE]

\* sra_collector.py:87-103: _validate_organization and _validate_office; the
\* handler reads record.get(...) for its message, which raises again when
\* the record is no mapping
ValidateGuarded(record, record_type) ==
    LET r == ValidateRecord(record, record_type, validation_rules)
    IN  IF ~r.raised
        THEN [propagates |-> FALSE, valid |-> r.valid, errors |-> r.errors]
        ELSE IF record.mapping
        THEN [propagates |-> FALSE, valid |-> FALSE,
              errors |-> <<<<"exception", record_type>>>>]
        ELSE [propagates |-> TRUE, valid |-> FALSE, errors |-> <<>>]

ValidateOrganization(org) == ValidateGuarded(org, "sra_organization")
ValidateOffice(office) == ValidateGuarded(office, "sra_office")

ValidationEntry(org, office_id, type, errors) ==
    [organization_id |-> org.Id, office_id |-> office_id, type |-> type,
     errors |-> errors]

\* sra_collector.py:151-167: the loop over the offices of one organisation
RECURSIVE ProcessOffices(_, _, _)
ProcessOffices(offices, org, acc) ==
    IF offices = <<>> THEN acc
    ELSE LET office == Head(offices)
             v == ValidateOffice(office)
         IN  IF v.propagates THEN [acc EXCEPT !.thrown = TRUE]
             ELSE IF v.valid
             THEN ProcessOffices(Tail(offices), org,
                      [acc EXCEPT !.summary.valid_offices = @ + 1,
                                  !.valid_offices = Append(@, office),
                                  !.stats.offices_processed = @ + 1])
             ELSE ProcessOffices(Tail(offices), org,
                      [acc EXCEPT !.stats.validation_errors = @ + 1,
                                  !.summary.invalid_offices = @ + 1,
                                  !.summary.validation_errors =
                                      Append(@, ValidationEntry(org, office.OfficeId,
                                                                "office", v.errors))])

\* sra_collector.py:177-185: the handler of the per-organisation try; its
\* org.get('Id') raises again when the item is no mapping, and that
\* exception leaves _process_organization_data
Caught(org, acc) ==
    IF org.mapping
    THEN [acc EXCEPT !.stats.errors = @ + 1,
                     !.errors_log = Append(@, [organization_id |-> org.Id]),
                     !.thrown = FALSE]
    ELSE [acc EXCEPT !.stats.errors = @ + 1, !.thrown = FALSE, !.raised = TRUE]

\* sra_collector.py:172-173
Emit(org, acc) ==
    [acc EXCEPT !.organizations = Append(@, org),
                !.stats.organizations_processed = @ + 1]

\* sra_collector.py:128-142: the organisation is validated and counted
CountOrganization(org, v, acc) ==
    IF v.valid
    THEN [acc EXCEPT !.summary.valid_organizations = @ + 1]
    ELSE [acc EXCEPT !.stats.validation_errors = @ + 1,
                     !.summary.invalid_organizations = @ + 1,
                     !.summary.validation_errors =
                         Append(@, ValidationEntry(org, 0, "organization", v.errors))]

\* sra_collector.py:146: if offices, for offices = org.get('Offices', [])
OfficesTruthy(org) ==
    \/ org.OfficesType = "list" /\ org.Offices # <<>>
    \/ org.OfficesType = "integer"

\* len(offices) at lines 147 and 175 raises TypeError for a value without a
\* length
HasLen(org) == org.OfficesType \in {"absent", "list"}

\* sra_collector.py:126-185: the body of the loop for one organisation
ProcessOne(org, acc) ==
    LET v == ValidateOrganization(org)
        counted == CountOrganization(org, v, acc)
        sized == [counted EXCEPT
                     !.summary.total_offices = @ + Len(org.Offices),
                     !.stats.total_offices = @ + Len(org.Offices),
                     !.valid_offices = <<>>]
        filtered == ProcessOffices(org.Offices, org, sized)
    IN  IF v.propagates THEN Caught(org, acc)
        ELSE IF ~org.mapping THEN Caught(org, counted)
        ELSE IF OfficesTruthy(org) /\ ~HasLen(org) THEN Caught(org, counted)
        ELSE IF OfficesTruthy(org)
        THEN IF filtered.thrown THEN Caught(org, filtered)
             ELSE Emit([org EXCEPT !.Offices = filtered.valid_offices], filtered)
        ELSE IF HasLen(org) THEN Emit(org, counted)
        ELSE Caught(org, Emit(org, counted))

\* sra_collector.py:125-187: the loop over the organisations; it ends early
\* when an exception leaves the function
RECURSIVE ProcessOrganizations(_, _)
ProcessOrganizations(orgs, acc) ==
    IF orgs = <<>> \/ acc.raised THEN acc
    ELSE ProcessOrganizations(Tail(orgs), ProcessOne(Head(orgs), acc))

\* a faulty variant of IsEmptyList: an empty list is accepted
IsEmptyListNever(orgs) == FALSE

\* sra_collector.py:304: if not organizations
IsEmptyList(orgs) == orgs = <<>>

\* a faulty variant of ExitSession: the session is left open
ExitSessionLeak(s) == s

\* sra_api_client.py:222-232: __exit__ calls close() on every way out of the
\* with block of sra_collector.py:289
ExitSession(s) == IF s = "open" THEN "closed" ELSE s

\* sra_collector.py:337-357: the dictionary collect_organizations returns
Result(success, err, stats) ==
    [returned |-> TRUE, success |-> success, error |-> err,
     organizations_collected |-> stats.organizations_processed,
     offices_collected |-> stats.offices_processed]

\* sra_collector.py:347-357: the handler of collect_organizations; leaving
\* the with block of line 289 closes the session
Fail(err, stats, entered) ==
    /\ runPc' = "failed"
    /\ phases' = Append(entered, "failed")
    /\ collection_stats' = [stats EXCEPT !.end_time = now]
    /\ outcome' = Result(FALSE, err, stats)
    /\ session' = ExitSession(session)

\* sra_collector.py:73-85: the state file is read when it exists; a file
\* that does not parse is logged and ignored
LoadCollectionState(file) == IF file = "ok" THEN "completed" ELSE "none"

\* a faulty variant of ResumeSkips: a completed state ends the run at once
ResumeSkipsCompleted(r, state) == r /\ state = "completed"

\* sra_collector.py:281-286: the loaded state is logged and nothing else
\* ("For now, we'll do a fresh collection")
ResumeSkips(r, state) == FALSE

\* sra_collector.py:281-283: the state is loaded only for a resumed run
LoadedState(r) ==
    IF r THEN LoadCollectionState(files["state"]) ELSE "not_requested"

\* sra_collector.py:276-292: collect_organizations is called; the client is
\* constructed (ValueError without an API key), the session is opened and
\* test_connection enters its request
StartRun(r) ==
    /\ runPc \in {"idle", "completed", "failed"}
    /\ reqPc = "idle"
    /\ fetched.kind = "none"
    /\ pipePc = "idle"
    /\ runs < MaxRuns
    /\ runs' = runs + 1
    /\ resume' = r
    /\ saved_state' = LoadedState(r)
    /\ written' = {}
    /\ failedWrites' = {}
    /\ connected' = "pending"
    /\ raw_data' = NoBody
    /\ organizations' = <<>>
    /\ processed' = <<>>
    /\ validation_summary' = NoSummary
    /\ UNCHANGED <<requests_per_period, period_seconds, delay_between_requests,
                   max_retries, retry_delay, json_error_retryable, fetched,
                   api_key, files>>
    /\ UNCHANGED <<validation_rules, errors_log, canonical, outVars, valVars>>
    /\ IF ResumeSkips(r, LoadedState(r))
       THEN /\ runPc' = "completed"
            /\ phases' = <<"completed">>
            /\ session' = session
            /\ collection_stats' = [collection_stats EXCEPT !.start_time = now,
                                                            !.end_time = now]
            /\ outcome' = Result(TRUE, "", collection_stats)
            /\ UNCHANGED <<now, request_timestamps, recorded, rlLast, reqPc,
                           attempt, physical, responses, result>>
       ELSE IF api_key
       THEN /\ runPc' = "test"
            /\ phases' = <<"fetch">>
            /\ session' = "open"
            /\ collection_stats' = [collection_stats EXCEPT !.start_time = now]
            /\ outcome' = NoOutcome
            /\ request_timestamps' = <<>>
            /\ recorded' = <<>>
            /\ rlLast' = NoCall
            /\ now' = now
            /\ EnterMakeRequest
       ELSE /\ runPc' = "failed"
            /\ phases' = <<"failed">>
            /\ session' = "none"
            /\ collection_stats' = [collection_stats EXCEPT !.start_time = now,
                                                            !.end_time = now]
            /\ outcome' = Result(FALSE, "SRA API key not found in configuration",
                                 collection_stats)
            /\ UNCHANGED <<now, request_timestamps, recorded, rlLast, reqPc,
                           attempt, physical, responses, result>>

\* sra_collector.py:292-299: test_connection has its answer; on True the
\* second get_all_organizations call enters its request
TestConnectionReturn ==
    /\ runPc = "test"
    /\ reqPc \in {"returned", "raised"}
    /\ UNCHANGED <<rlVars, max_retries, retry_delay, json_error_retryable, fetched>>
    /\ UNCHANGED <<api_key, raw_data, organizations, processed, files, written,
                   failedWrites, runs>>
    /\ UNCHANGED <<resumeVars, procVars, outVars, valVars>>
    /\ IF TestConnectionResult(result)
       THEN /\ connected' = "true"
            /\ collection_stats' = [collection_stats EXCEPT !.api_calls = @ + 1]
            /\ runPc' = "fetch"
            /\ EnterMakeRequest
            /\ UNCHANGED <<phases, session, outcome>>
       ELSE /\ connected' = "false"
            /\ Fail("Failed to establish connection to SRA API", collection_stats,
                    phases)
            /\ LeaveMakeRequest

\* sra_collector.py:299-308: the fetch has ended
FetchReturn ==
    /\ runPc = "fetch"
    /\ reqPc \in {"returned", "raised"}
    /\ LeaveMakeRequest
    /\ UNCHANGED <<rlVars, max_retries, retry_delay, json_error_retryable, fetched>>
    /\ UNCHANGED <<api_key, connected, processed, files, written, failedWrites, runs>>
    /\ UNCHANGED <<resumeVars, procVars, outVars, valVars>>
    /\ LET r == GetAllOutcome(result)
           total == IF "Count" \in r.data.keys THEN r.data.Count ELSE 0
           orgs == IF "Organisations" \in r.data.keys
                   THEN r.data.Organisations ELSE <<>>
           stats == [collection_stats EXCEPT !.total_organizations = total]
       IN  IF r.kind = "error"
           THEN /\ Fail(r.error, collection_stats, phases)
                /\ UNCHANGED <<raw_data, organizations>>
           ELSE /\ raw_data' = r.data
                /\ organizations' = orgs
                /\ IF IsEmptyList(orgs)
                   THEN Fail("No organizations data received from API", stats,
                             phases)
                   ELSE /\ runPc' = "process"
                        /\ collection_stats' = stats
                        /\ UNCHANGED <<phases, session, outcome>>

\* sra_collector.py:311: _process_organization_data
Process ==
    /\ runPc = "process"
    /\ UNCHANGED <<rlVars, reqVars>>
    /\ UNCHANGED <<api_key, connected, raw_data, organizations, files, written,
                   failedWrites, runs>>
    /\ UNCHANGED <<resumeVars, validation_rules, canonical, outVars, valVars>>
    /\ LET p == ProcessOrganizations(organizations,
                    ProcessingState(collection_stats, errors_log))
       IN  /\ errors_log' = p.errors_log
           /\ IF p.raised
              THEN /\ Fail("AttributeError", p.stats, Append(phases, "validate"))
                   /\ processed' = processed
                   /\ validation_summary' = validation_summary
              ELSE /\ processed' = p.organizations
                   /\ validation_summary' = p.summary
                   /\ collection_stats' = p.stats
                   /\ runPc' = "save"
                   /\ phases' = Append(phases, "validate")
                   /\ UNCHANGED <<session, outcome>>

\* a JSON object is held as a function from its keys; dict.get(key, default)
DictGet(object, key, default) ==
    IF key \in DOMAIN object THEN object[key] ELSE default

NoObject == [k \in {} |-> <<>>]
NoFile == [status |-> "absent", data |-> NoObject]

\* sra_collector.py:107-121 and file_manager.py:143-154: the file save_json
\* leaves for processed_data; json.dump and json.load give back the same
\* mappings, lists, strings and numbers
FileAfterSave(before, w, data) ==
    IF w = "ok" THEN [status |-> "ok", data |-> data]
    ELSE IF w = "partial" THEN [status |-> "partial", data |-> NoObject]
    ELSE before

ProcessedData(summary, orgs) == [metadata |-> summary, organizations |-> orgs]

\* sra_collector.py:196-222 and 314: _save_data; FileManager.get_file_size
\* (file_manager.py:38-40) raises for a file that does not exist
SaveData(wMain, wMeta) ==
    /\ runPc = "save"
    /\ UNCHANGED <<rlVars, reqVars>>
    /\ UNCHANGED <<api_key, connected, raw_data, organizations, processed, runs>>
    /\ UNCHANGED <<resumeVars, validation_rules, errors_log, validation_summary,
                   outVars, valVars>>
    /\ canonical' = IF SaveJsonRaises(wMain) THEN canonical
                    ELSE FileAfterSave(canonical, wMain,
                             ProcessedData(validation_summary, processed))
    /\ LET mainFile == AfterWrite(files["main_data"], wMain)
           metaFile == IF SaveJsonRaises(wMain) THEN files["metadata"]
                       ELSE AfterWrite(files["metadata"], wMeta)
           raises == \/ SaveJsonRaises(wMain)
                     \/ SaveJsonRaises(wMeta)
                     \/ mainFile = "absent"
                     \/ metaFile = "absent"
       IN  /\ files' = [files EXCEPT !["main_data"] = mainFile,
                                     !["metadata"] = metaFile]
           /\ written' = written \cup
                  (IF SaveJsonRaises(wMain) THEN {"main_data"}
                   ELSE {"main_data", "metadata"})
           /\ failedWrites' = failedWrites
                  \cup (IF wMain # "ok" THEN {"main_data"} ELSE {})
                  \cup (IF wMeta # "ok" /\ ~SaveJsonRaises(wMain)
                        THEN {"metadata"} ELSE {})
           /\ IF raises
              THEN Fail("FileNotFoundError", collection_stats,
                        Append(phases, "persist_data"))
              ELSE /\ runPc' = "state"
                   /\ phases' = Append(phases, "persist_data")
                   /\ collection_stats' =
                          [collection_stats EXCEPT !.data_size_bytes =
                               Cardinality({"main_data", "metadata"})]
                   /\ UNCHANGED <<session, outcome>>

\* sra_collector.py:317-325 and 67-71: the collection state is saved
SaveState(w) ==
    /\ runPc = "state"
    /\ UNCHANGED <<rlVars, reqVars>>
    /\ UNCHANGED <<api_key, connected, raw_data, organizations, processed, runs>>
    /\ UNCHANGED <<resumeVars, procVars, outVars, valVars>>
    /\ files' = [files EXCEPT !["state"] = AfterWrite(@, w)]
    /\ written' = written \cup {"state"}
    /\ failedWrites' = failedWrites \cup (IF w # "ok" THEN {"state"} ELSE {})
    /\ IF SaveJsonRaises(w)
       THEN Fail("OSError", collection_stats, Append(phases, "persist_state"))
       ELSE /\ runPc' = "report"
            /\ phases' = Append(phases, "persist_state")
            /\ collection_stats' = [collection_stats EXCEPT !.end_time = now]
            /\ UNCHANGED <<session, outcome>>

\* sra_collector.py:328-345 and 224-271: the report is written and the
\* result returned; leaving the with block closes the session
Report(w) ==
    /\ runPc = "report"
    /\ UNCHANGED <<rlVars, reqVars>>
    /\ UNCHANGED <<api_key, connected, raw_data, organizations, processed, runs>>
    /\ UNCHANGED <<resumeVars, procVars, outVars, valVars>>
    /\ files' = [files EXCEPT !["report"] = AfterWrite(@, w)]
    /\ written' = written \cup {"report"}
    /\ failedWrites' = failedWrites \cup (IF w # "ok" THEN {"report"} ELSE {})
    /\ IF SaveJsonRaises(w)
       THEN Fail("OSError", collection_stats, Append(phases, "report"))
       ELSE /\ runPc' = "completed"
            /\ phases' = Append(Append(phases, "report"), "completed")
            /\ session' = ExitSession(session)
            /\ collection_stats' = collection_stats
            /\ outcome' = Result(TRUE, "", collection_stats)

(***************************************************************************)
(* The pipeline used piece by piece: _process_organization_data on a       *)
(* dataset, DataLoader.save_json of its result, and the output generator   *)
(* (generate_outputs.py) on the saved file                                 *)
(***************************************************************************)
\* generate_outputs.py:32: the key the generator reads its input under
InputKey == "Organisations"

\* org.get('Id') of a record without that key is None, held as 0 (the
\* identifiers of the registry are positive)
NoneId == 0

\* the default of org.get('DataQualityScore', 0)
Zero == Number(<<"0">>)

NoStatistics == [written |-> FALSE, total_organizations |-> 0, total_offices |-> 0]

\* the output directory before anything was generated
NoArtifacts == [status |-> "none", generated |-> 0, count |-> 0,
                organizations |-> <<>>, db_organizations |-> <<>>,
                db_offices |-> <<>>, statistics |-> NoStatistics]

\* generate_outputs.py:65-93: the compact form of an office list
CompactOffices(org) ==
    [i \in 1..Len(org.Offices) |-> [id |-> org.Offices[i].OfficeId]]

\* generate_outputs.py:46-95: the compact form of an organisation;
\* org.get('Offices', []) of a value that is no list (null, a number) ends
\* the iteration with TypeError, which GeneratorRaises tells apart
CompactOrg(org) ==
    [id |-> DictGet(org, "Id", NoneId),
     quality_score |-> DictGet(org, "DataQualityScore", Zero),
     offices |-> IF org.OfficesType = "list" THEN CompactOffices(org) ELSE <<>>]

\* generate_outputs.py:187-202: the relational record of an organisation;
\* its .get calls have no default
DbOrg(org) ==
    [id |-> DictGet(org, "Id", NoneId),
     data_quality_score |-> DictGet(org, "DataQualityScore", Null)]

\* a relational office that names another organisation than its own
DbOfficesOrphaned(org) ==
    IF org.OfficesType = "list"
    THEN [i \in 1..Len(org.Offices) |->
             [id |-> org.Offices[i].OfficeId,
              organization_id |-> DictGet(org, "Id", NoneId) + 1]]
    ELSE <<>>

\* generate_outputs.py:213-234: the relational records of an office list
DbOffices(org) ==
    IF org.OfficesType = "list"
    THEN [i \in 1..Len(org.Offices) |->
             [id |-> org.Offices[i].OfficeId,
              organization_id |-> DictGet(org, "Id", NoneId)]]
    ELSE <<>>

RECURSIVE Concat(_)
Concat(ss) == IF ss = <<>> THEN <<>> ELSE Head(ss) \o Concat(Tail(ss))

\* .get on an item that is no mapping and a for loop over a value that is
\* no list raise in the generator
GeneratorRaises(orgs) ==
    \E i \in 1..Len(orgs) :
        \/ ~orgs[i].mapping
        \/ orgs[i].OfficesType \notin {"absent", "list"}
        \/ \E j \in 1..Len(orgs[i].Offices) : ~orgs[i].Offices[j].mapping

\* generate_outputs.py:272-276: score_sum += org.get('DataQualityScore', 0)
\* raises TypeError for a score that is null
StatisticsRaises(orgs) ==
    \E i \in 1..Len(orgs) : DictGet(orgs[i], "DataQualityScore", Zero).t # "integer"

\* generate_outputs.py:255-258
Statistics(orgs) ==
    [written |-> TRUE, total_organizations |-> Len(orgs),
     total_offices |-> SumSeq([i \in 1..Len(orgs) |-> Len(orgs[i].Offices)])]

\* a file opened for appending keeps what it held
OpenWAppending(before, content) == before \o content

\* open(output_file, 'w'): the file holds what this run writes
OpenW(before, content) == content

\* a count of the offices instead of the organisations
CountOfOffices(orgs) == SumSeq([i \in 1..Len(orgs) |-> Len(orgs[i].Offices)])

\* generate_outputs.py:42: 'count': len(self.organizations)
CountOf(orgs) == Len(orgs)

\* generate_outputs.py:23-33 and 430-472: the generator is built on a file
\* and writes the compact file, the relational files and the statistics in
\* that order at time t; an exception leaves the files written so far and
\* the older ones as they are. The names and addresses the dashboard slices
\* are taken to be strings.
GenerateAllOutputs(before, file, t) ==
    LET orgs == DictGet(file.data, InputKey, <<>>)
    IN  IF file.status # "ok" \/ GeneratorRaises(orgs)
        THEN [before EXCEPT !.status = "raised"]
        ELSE LET files_written ==
                     [before EXCEPT
                         !.generated = t,
                         !.count = CountOf(orgs),
                         !.organizations =
                             OpenW(@, [i \in 1..Len(orgs) |-> CompactOrg(orgs[i])]),
                         !.db_organizations =
                             OpenW(@, [i \in 1..Len(orgs) |-> DbOrg(orgs[i])]),
                         !.db_offices =
                             OpenW(@, Concat([i \in 1..Len(orgs) |-> DbOffices(orgs[i])]))]
             IN  IF StatisticsRaises(orgs)
                 THEN [files_written EXCEPT !.status = "raised"]
                 ELSE [files_written EXCEPT !.status = "generated",
                                            !.statistics = Statistics(orgs)]

\* _process_organization_data is applied to the dataset in `organizations`
ProcessCall ==
    /\ pipePc = "input"
    /\ LET p == ProcessOrganizations(organizations,
                    ProcessingState(collection_stats, errors_log))
       IN  /\ errors_log' = p.errors_log
           /\ collection_stats' = p.stats
           /\ processed' = IF p.raised THEN processed ELSE p.organizations
           /\ validation_summary' =
                  IF p.raised THEN validation_summary ELSE p.summary
           /\ pipePc' = IF p.raised THEN "raised" ELSE "processed"
    /\ UNCHANGED <<rlVars, reqVars, resumeVars>>
    /\ UNCHANGED <<runPc, phases, api_key, session, connected, raw_data,
                   organizations, files, written, failedWrites, outcome, runs>>
    /\ UNCHANGED <<validation_rules, canonical, artifacts, generations, valVars>>

\* DataLoader.save_json(processed_data, main_file)
SaveCall(w) ==
    /\ pipePc = "processed"
    /\ canonical' = FileAfterSave(canonical, w,
                        ProcessedData(validation_summary, processed))
    /\ files' = [files EXCEPT !["main_data"] = AfterWrite(@, w)]
    /\ pipePc' = "saved"
    /\ UNCHANGED <<rlVars, reqVars, resumeVars>>
    /\ UNCHANGED <<runPc, phases, api_key, session, collection_stats, connected,
                   raw_data, organizations, processed, written, failedWrites,
                   outcome, runs>>
    /\ UNCHANGED <<validation_rules, errors_log, validation_summary, artifacts,
                   generations, valVars>>

\* generate_outputs.py run on the saved file
GenerateOutputs ==
    /\ pipePc = "saved"
    /\ generations < MaxGenerations
    /\ generations' = generations + 1
    /\ artifacts' = GenerateAllOutputs(artifacts, canonical, generations')
    /\ pipePc' = "generated"
    /\ UNCHANGED <<rlVars, reqVars, runVars, resumeVars, procVars, valVars>>

\* generate_outputs.py run once more on the input it has already run on
Regenerate ==
    /\ pipePc = "generated"
    /\ generations < MaxGenerations
    /\ generations' = generations + 1
    /\ artifacts' = GenerateAllOutputs(artifacts, canonical, generations')
    /\ UNCHANGED pipePc
    /\ UNCHANGED <<rlVars, reqVars, runVars, resumeVars, procVars, valVars>>

\* the file the generator reads, holding a list of organisations
InputFile(orgs) == [status |-> "ok", data |-> [Organisations |-> orgs]]

\* generate_outputs.py:474-483: the cleaned dataset is replaced by another
\* one between two runs of the generator
ReplaceInput(orgs) ==
    /\ pipePc = "generated"
    /\ canonical # InputFile(orgs)
    /\ canonical' = InputFile(orgs)
    /\ pipePc' = "saved"
    /\ UNCHANGED <<rlVars, reqVars, runVars, resumeVars, artifacts, generations>>
    /\ UNCHANGED <<validation_rules, errors_log, validation_summary, valVars>>

(***************************************************************************)
(* DataValidator called directly                                           *)
(***************************************************************************)
NoValCall == [fn |-> "none", arg |-> <<>>, record_type |-> ""]
NoValResult == [raised |-> FALSE, value |-> FALSE, errors |-> <<>>, warnings |-> <<>>]

\* validators.py:49-53
ValidateSolicitorNumberCall(number) ==
    /\ valPc = "idle"
    /\ valCall' = [fn |-> "validate_solicitor_number", arg |-> number,
                   record_type |-> ""]
    /\ valResult' = [NoValResult EXCEPT !.value = ValidateSolicitorNumber(number)]
    /\ valPc' = "returned"
    /\ UNCHANGED <<rlVars, reqVars, runVars, resumeVars, procVars, outVars>>

\* validators.py:29-41
ValidatePhoneUkCall(phone) ==
    /\ valPc = "idle"
    /\ valCall' = [fn |-> "validate_phone_uk", arg |-> phone, record_type |-> ""]
    /\ valResult' = [NoValResult EXCEPT !.value = ValidatePhoneUk(phone)]
    /\ valPc' = "returned"
    /\ UNCHANGED <<rlVars, reqVars, runVars, resumeVars, procVars, outVars>>

\* validators.py:120-211: the "valid" entry of the result is held in value
ValidateRecordCall(record, record_type) ==
    /\ valPc = "idle"
    /\ valCall' = [fn |-> "validate_record", arg |-> record,
                   record_type |-> record_type]
    /\ LET r == ValidateRecord(record, record_type, validation_rules)
       IN  /\ valResult' = [raised |-> r.raised, value |-> r.valid,
                            errors |-> r.errors, warnings |-> r.warnings]
           /\ valPc' = IF r.raised THEN "raised" ELSE "returned"
    /\ UNCHANGED <<rlVars, reqVars, runVars, resumeVars, procVars, outVars>>

(***************************************************************************)
(* Initial states and specifications                                       *)
(***************************************************************************)
InitLimiter ==
    /\ now = 0
    /\ request_timestamps = <<>>
    /\ recorded = <<>>
    /\ rlLast = NoCall

InitRequest ==
    /\ reqPc = "idle"
    /\ attempt = 0
    /\ physical = 0
    /\ responses = <<>>
    /\ result = NoResult
    /\ fetched = NoResult

InitCollector ==
    /\ runPc = "idle"
    /\ phases = <<>>
    /\ session = "none"
    /\ collection_stats = NoStats
    /\ connected = "pending"
    /\ raw_data = NoBody
    /\ processed = <<>>
    /\ files = [r \in FileRoles |-> "absent"]
    /\ written = {}
    /\ failedWrites = {}
    /\ outcome = NoOutcome
    /\ runs = 0
    /\ resume = FALSE
    /\ saved_state = "not_requested"
    /\ errors_log = <<>>
    /\ validation_summary = NoSummary
    /\ artifacts = NoArtifacts
    /\ generations = 0
    /\ valPc = "idle"
    /\ valCall = NoValCall
    /\ valResult = NoValResult

\* the defaults of _load_config and _setup_rate_limiter
DefaultRequestsPerPeriod == 600
DefaultPeriodMinutes == 5
DefaultDelay == TicksPerSecond \div 2
DefaultMaxRetries == 3
DefaultRetryDelay == Seconds(2)

\* ---- the rate limiter on its own ----
InitRL ==
    /\ requests_per_period \in {1, 2, 5}
    /\ period_seconds = PeriodSeconds(1)
    /\ delay_between_requests \in {0, DefaultDelay, PeriodSeconds(1) + Seconds(1)}
    /\ InitLimiter
    /\ max_retries = DefaultMaxRetries
    /\ retry_delay = DefaultRetryDelay
    /\ json_error_retryable = TRUE
    /\ api_key = TRUE
    /\ validation_rules = RulesNone
    /\ pipePc = "idle"
    /\ organizations = <<>>
    /\ canonical = NoFile
    /\ InitRequest
    /\ InitCollector

NextRL == \E gap \in GapChoices, over \in OvershootChoices : RLCall(gap, over)

SpecRL == InitRL /\ [][NextRL]_vars

\* ---- one get_all_organizations call on a fresh client ----
InitReq ==
    /\ requests_per_period \in {1, DefaultRequestsPerPeriod}
    /\ period_seconds = PeriodSeconds(DefaultPeriodMinutes)
    /\ delay_between_requests = DefaultDelay
    /\ InitLimiter
    /\ max_retries \in 0..MaxRetriesBound
    /\ retry_delay \in {Seconds(1), Seconds(1) + 1, DefaultRetryDelay}
    /\ json_error_retryable \in BOOLEAN
    /\ api_key = TRUE
    /\ validation_rules = RulesNone
    /\ pipePc = "idle"
    /\ organizations = <<>>
    /\ canonical = NoFile
    /\ InitRequest
    /\ InitCollector

NextReq ==
    \/ CallGetAll
    \/ \E resp \in Responses : Attempt(resp)
    \/ GetAllReturn

SpecReq == InitReq /\ [][NextReq]_vars

FairSpecReq == SpecReq /\ WF_vars(NextReq)

\* ---- collection runs ----
\* what the registry answers during a run: every body that parses, a
\* refusal and a network failure (the other responses differ from these only
\* inside _make_request)
RunResponses ==
    {r \in Responses : r.kind = "response" /\ r.status = 200 /\ r.body.json}
    \cup {Resp("response", 401, "absent", NoBody), Resp("Timeout", 0, "absent", NoBody)}

InitRun ==
    /\ requests_per_period = DefaultRequestsPerPeriod
    /\ period_seconds = PeriodSeconds(DefaultPeriodMinutes)
    /\ delay_between_requests = DefaultDelay
    /\ InitLimiter
    /\ max_retries \in {0, 1}
    /\ retry_delay = DefaultRetryDelay
    /\ json_error_retryable = TRUE
    /\ api_key \in BOOLEAN
    /\ validation_rules = RulesStrict
    /\ pipePc = "idle"
    /\ organizations = <<>>
    /\ canonical = NoFile
    /\ InitRequest
    /\ InitCollector

NextRun ==
    \/ \E r \in BOOLEAN : StartRun(r)
    \/ \E resp \in RunResponses : Attempt(resp)
    \/ TestConnectionReturn
    \/ FetchReturn
    \/ Process
    \/ \E wMain \in WriteOutcomes, wMeta \in WriteOutcomes : SaveData(wMain, wMeta)
    \/ \E w \in WriteOutcomes : SaveState(w)
    \/ \E w \in WriteOutcomes : Report(w)

SpecRun == InitRun /\ [][NextRun]_vars

\* ---- the pipeline piece by piece, on a dataset ----
\* offices: well-formed, and with a malformed postcode
OfficeShapes == {GoodOffice(0), Office(0, TRUE, Str(PostcodeBAD))}

Numbered(items) == [i \in 1..Len(items) |-> [items[i] EXCEPT !.OfficeId = i]]

OfficeLists ==
    UNION {{Numbered(l) : l \in [1..n -> OfficeShapes]} : n \in 0..MaxOffices}

\* office lists with an item of another kind: a postcode in lower case
\* with blanks around it, a postcode that is a number, no postcode, a null
\* item
OddOfficeLists == {<<Office(1, TRUE, Str(PostcodeLower))>>,
                   <<Office(1, TRUE, Number(<<"5">>))>>,
                   <<Office(1, TRUE, Absent), GoodOffice(2)>>,
                   <<GoodOffice(1), Office(2, FALSE, Absent)>>}

OrgShapes ==
    {OrgWith(0, TRUE, Str(Sra123456), "list", l) : l \in OfficeLists \cup OddOfficeLists}
    \cup {OrgWith(0, TRUE, Str(Sra123456), t, <<>>) : t \in {"absent", "null", "integer"}}
    \cup {OrgWith(0, TRUE, Str(Sra12), "list", l) :
              l \in {<<>>, <<Office(1, TRUE, Str(PostcodeBAD))>>}}
    \cup {OrgWith(0, FALSE, Absent, "absent", <<>>)}

\* the datasets of up to max organisations
Datasets(max) ==
    UNION {{[i \in 1..n |-> [f[i] EXCEPT !.Id = i]] : f \in [1..n -> OrgShapes]} :
              n \in 0..max}

InitPipe ==
    /\ requests_per_period = DefaultRequestsPerPeriod
    /\ period_seconds = PeriodSeconds(DefaultPeriodMinutes)
    /\ delay_between_requests = DefaultDelay
    /\ InitLimiter
    /\ max_retries = DefaultMaxRetries
    /\ retry_delay = DefaultRetryDelay
    /\ json_error_retryable = TRUE
    /\ api_key = TRUE
    /\ validation_rules \in {RulesNone, RulesStrict, RulesLax}
    /\ pipePc = "input"
    /\ organizations \in Datasets(MaxOrgs)
    /\ canonical = NoFile
    /\ InitRequest
    /\ InitCollector

NextPipe ==
    \/ ProcessCall
    \/ \E w \in WriteOutcomes : SaveCall(w)
    \/ GenerateOutputs

SpecPipe == InitPipe /\ [][NextPipe]_vars

\* ---- the output generator on a cleaned dataset ----
\* the office lists of the generator's input: Offices missing, a list of
\* records, null, a list with a null item
OutOffices ==
    {<<"absent", <<>>>>, <<"null", <<>>>>,
     <<"list", <<GoodOffice(1), Office(2, FALSE, Absent)>>>>}
    \cup {<<"list", [i \in 1..n |-> GoodOffice(i)]>> : n \in 0..MaxOffices}

\* a record without one of its keys
Without(object, key) == [k \in DOMAIN object \ {key} |-> object[k]]

\* the quality score of an organisation: the key is missing, null, a number
Scored(org) ==
    {org, org @@ [DataQualityScore |-> Null],
     org @@ [DataQualityScore |-> Number(<<"7">>)]}

\* organisations of the generator's input; one has no Id, one is null
OutOrgShapes ==
    UNION {Scored(OrgWith(0, TRUE, Str(Sra123456), o[1], o[2])) : o \in OutOffices}
    \cup {Without(OrgWith(0, TRUE, Str(Sra123456), "list", <<GoodOffice(1)>>), "Id"),
          OrgWith(0, FALSE, Absent, "absent", <<>>)}

WithId(org, i) == IF "Id" \in DOMAIN org THEN [org EXCEPT !.Id = i] ELSE org

OutDatasets ==
    UNION {{[i \in 1..n |-> WithId(f[i], i)] : f \in [1..n -> OutOrgShapes]} :
              n \in 0..MaxOrgs}

\* datasets a later cleaning can put in place of the first one
Replacements == {<<>>, <<Org(1, TRUE)>>}

InitOut ==
    /\ requests_per_period = DefaultRequestsPerPeriod
    /\ period_seconds = PeriodSeconds(DefaultPeriodMinutes)
    /\ delay_between_requests = DefaultDelay
    /\ InitLimiter
    /\ max_retries = DefaultMaxRetries
    /\ retry_delay = DefaultRetryDelay
    /\ json_error_retryable = TRUE
    /\ api_key = TRUE
    /\ validation_rules = RulesNone
    /\ pipePc = "saved"
    /\ organizations = <<>>
    /\ canonical \in {InputFile(d) : d \in OutDatasets}
    /\ InitRequest
    /\ InitCollector

NextOut ==
    \/ GenerateOutputs
    \/ Regenerate
    \/ \E d \in Replacements : ReplaceInput(d)

SpecOut == InitOut /\ [][NextOut]_vars

\* ---- the validator on its own ----
RECURSIVE Texts(_, _)
Texts(alphabet, n) ==
    IF n = 0 THEN {<<>>}
    ELSE LET shorter == Texts(alphabet, n - 1)
         IN  shorter \cup {Append(t, c) : t \in {u \in shorter : Len(u) = n - 1},
                                          c \in alphabet}

Repeat(c, n) == [i \in 1..n |-> c]

\* every text of digits and letters up to MaxText characters, the digit
\* strings followed by a newline, and the numbers of
\* test_validate_solicitor_number
SolicitorNumbers ==
    Texts({"1", "a"}, MaxText)
    \cup {Append(t, "\n") : t \in Texts({"1"}, MaxText)}
    \cup {Sra123456, Sra12,
          <<"1", "2", "3", "4", "5", "6", "7">>,
          <<"1", "2", "3", "4", "5">>,
          <<"1", "2", "3", "4", "5", "6", "7", "8">>,
          <<"a", "b", "c", "1", "2", "3">>}

\* the numbers of test_validate_phone_uk
Phone07123456789 == <<"0", "7", "1", "2", "3", "4", "5", "6", "7", "8", "9">>
PhonePlus447123456789 ==
    <<"+", "4", "4", "7", "1", "2", "3", "4", "5", "6", "7", "8", "9">>
Phone0207123456 == <<"0", "2", "0", "7", "1", "2", "3", "4", "5", "6">>
Phone123 == <<"1", "2", "3">>
PhoneInvalid == <<"i", "n", "v", "a", "l", "i", "d">>

\* a prefix, a first digit, up to MaxDigits further digits, written solid
\* or with a blank, a dash and parentheses
PhoneNumbers ==
    {Phone07123456789, PhonePlus447123456789, Phone0207123456, Phone123,
     PhoneInvalid}
    \cup {p \o <<f>> \o Repeat("3", n) :
              p \in PhonePrefixes \cup {<<"0">>, <<"+">>},
              f \in {"0", "1", "2", "7"}, n \in 0..MaxDigits}
    \cup {<<"(">> \o p \o <<")", " ", f>> \o Repeat("3", n) \o <<"-", "3">> :
              p \in PhonePrefixes \cup {<<"0">>},
              f \in {"1", "7"}, n \in 0..(MaxDigits - 1)}

\* records given to validate_record
OfficeRecords ==
    UNION {{l[i] : i \in 1..Len(l)} : l \in OfficeLists \cup OddOfficeLists}
OrganizationRecords == {[o EXCEPT !.Id = 1] : o \in OrgShapes}

InitVal ==
    /\ requests_per_period = DefaultRequestsPerPeriod
    /\ period_seconds = PeriodSeconds(DefaultPeriodMinutes)
    /\ delay_between_requests = DefaultDelay
    /\ InitLimiter
    /\ max_retries = DefaultMaxRetries
    /\ retry_delay = DefaultRetryDelay
    /\ json_error_retryable = TRUE
    /\ api_key = TRUE
    /\ validation_rules \in {RulesNone, RulesStrict, RulesLax}
    /\ pipePc = "idle"
    /\ organizations = <<>>
    /\ canonical = NoFile
    /\ InitRequest
    /\ InitCollector

NextVal ==
    \/ \E number \in SolicitorNumbers : ValidateSolicitorNumberCall(number)
    \/ \E phone \in PhoneNumbers : ValidatePhoneUkCall(phone)
    \/ \E record \in OfficeRecords : ValidateRecordCall(record, "sra_office")
    \/ \E record \in OrganizationRecords :
           ValidateRecordCall(record, "sra_organization")

SpecVal == InitVal /\ [][NextVal]_vars

Spec == SpecRun

(***************************************************************************)
(* Properties of the rate limiter (checked under SpecRL)                   *)
(***************************************************************************)
\* indices of the recorded timestamps in the window (t - period_seconds, t]
InWindow(t) ==
    {k \in 1..Len(recorded) : recorded[k] > t - period_seconds /\ recorded[k] <= t}

\* C1: no sliding window of period_seconds holds more than
\* requests_per_period recorded timestamps, and a call that found the pruned
\* list at the limit recorded its timestamp only after the oldest in-window
\* timestamp had left the window.
C1_RateWindow ==
    /\ \A j \in 1..Len(recorded) :
           Cardinality(InWindow(recorded[j])) <= requests_per_period
    /\ rlLast.blocked =>
           recorded[Len(recorded)] > rlLast.oldest + period_seconds

\* limit 5: five calls inside one window, the sixth made at once and blocked
C1_Witness ==
    /\ requests_per_period = 5
    /\ Len(recorded) = 6
    /\ rlLast.blocked
    /\ rlLast.called = recorded[5]
    /\ recorded[5] - recorded[1] < period_seconds
    /\ recorded[6] - recorded[1] > period_seconds

\* C2: any two consecutive recorded timestamps are at least
\* delay_between_requests apart.
C2_MinimumGap ==
    \A j \in 2..Len(recorded) :
        recorded[j] - recorded[j - 1] >= delay_between_requests

(***************************************************************************)
(* Properties of _make_request and get_all_organizations (SpecReq)         *)
(***************************************************************************)
Attempts == 1..Len(responses)
StatusOf(i) == responses[i].resp.status
IsResponse(i) == responses[i].resp.kind = "response"
Is429(i) == IsResponse(i) /\ StatusOf(i) = 429
HeaderOf(i) == responses[i].resp.retry_after
LastAttempt(i) == i = Len(responses)

\* after attempt i the loop goes on to attempt i + 1
FollowedByAttempt(i) == i < Len(responses) \/ (LastAttempt(i) /\ reqPc = "loop")

\* the call ended at attempt i by raising err
EndedRaising(i, err) ==
    LastAttempt(i) /\ reqPc = "raised" /\ result = Raised(err)

\* a Retry-After header int() and time.sleep() accept
UsableHeader(h) == h = "absent" \/ (h \in DOMAIN IntLiteral /\ IntLiteral[h] >= 0)

TotalSlept == SumSeq([i \in Attempts |-> SumSeq(responses[i].slept)])

\* C3 as stated: every 429 is followed by a sleep of the Retry-After value
\* (retry_delay when the header is absent) and by another attempt; a 429 on
\* the first attempt and a 200 on the next one end the call with the parsed
\* body after exactly two physical requests.
C3_Original ==
    /\ \A i \in Attempts : Is429(i) =>
           /\ HeaderOf(i) = "absent" => responses[i].slept = <<retry_delay>>
           /\ HeaderOf(i) # "absent" =>
                  /\ HeaderOf(i) \in DOMAIN IntLiteral
                  /\ responses[i].slept = <<IntLiteral[HeaderOf(i)] * TicksPerSecond>>
           /\ FollowedByAttempt(i)
    /\ (Len(responses) >= 2 /\ Is429(1) /\ IsResponse(2) /\ StatusOf(2) = 200) =>
           /\ reqPc = "returned"
           /\ result = Returned(responses[2].resp.body)
           /\ physical = 2

\* C3 as amended: a 429 whose Retry-After is absent or a non-negative integer
\* is followed by a sleep of that many seconds (of retry_delay truncated to
\* whole seconds when absent); the loop goes on when the attempt index is
\* below max_retries and the call fails with "Maximum retries exceeded" when
\* it is max_retries; any other Retry-After ends the call with ValueError
\* and no sleep. A 429 on the first attempt and a 200 with a JSON body on the
\* second end the call with that body after exactly two physical requests
\* and one sleep of the Retry-After length.
C3_RetryAfter ==
    /\ \A i \in Attempts : Is429(i) =>
           IF UsableHeader(HeaderOf(i))
           THEN /\ responses[i].slept =
                       <<IF HeaderOf(i) = "absent"
                         THEN (retry_delay \div TicksPerSecond) * TicksPerSecond
                         ELSE IntLiteral[HeaderOf(i)] * TicksPerSecond>>
                /\ i - 1 < max_retries => FollowedByAttempt(i)
                /\ i - 1 = max_retries => EndedRaising(i, "Maximum retries exceeded")
           ELSE /\ responses[i].slept = <<>>
                /\ EndedRaising(i, "ValueError")
    /\ (/\ Len(responses) >= 2
        /\ Is429(1)
        /\ IsResponse(2) /\ StatusOf(2) = 200 /\ responses[2].resp.body.json) =>
           /\ reqPc = "returned"
           /\ result = Returned(responses[2].resp.body)
           /\ physical = 2
           /\ TotalSlept = SumSeq(responses[1].slept)
           /\ HeaderOf(1) # "absent" =>
                  TotalSlept >= IntLiteral[HeaderOf(1)] * TicksPerSecond

\* 429 with Retry-After: 2 first, 200 second
C3_Witness ==
    /\ Len(responses) = 2
    /\ Is429(1) /\ HeaderOf(1) = "2"
    /\ IsResponse(2) /\ StatusOf(2) = 200
    /\ reqPc = "returned"
    /\ result.data = BodyTwo
    /\ physical = 2
    /\ TotalSlept = 4

\* C4 as stated: every 429 is followed by another attempt, and no call ends
\* in failure on a 429.
C4_Original ==
    /\ \A i \in Attempts : Is429(i) => FollowedByAttempt(i)
    /\ (reqPc = "raised" /\ responses # <<>>) => ~Is429(Len(responses))

\* C4 as amended: a 429 with a usable Retry-After received on an attempt
\* whose index is below max_retries is followed by another attempt; a call
\* ends in failure on a 429 only when the 429 came on the last attempt of the
\* retry budget ("Maximum retries exceeded") or carried a Retry-After that is
\* no non-negative integer (ValueError).
C4_Retried ==
    /\ \A i \in Attempts :
           (Is429(i) /\ UsableHeader(HeaderOf(i)) /\ i <= max_retries)
               => FollowedByAttempt(i)
    /\ (reqPc = "raised" /\ responses # <<>> /\ Is429(Len(responses))) =>
           \/ /\ Len(responses) = max_retries + 1
              /\ UsableHeader(HeaderOf(Len(responses)))
              /\ result = Raised("Maximum retries exceeded")
           \/ /\ ~UsableHeader(HeaderOf(Len(responses)))
              /\ result = Raised("ValueError")

\* two 429 in a row: the first is retried, the second exhausts the budget
C4_Witness ==
    /\ max_retries = 1
    /\ Len(responses) = 2
    /\ Is429(1) /\ Is429(2)
    /\ UsableHeader(HeaderOf(2))
    /\ reqPc = "raised"

\* C5: a 401 or 403 ends the call at once: no sleep, no further physical
\* request whatever is left of the retry budget, and the failure reaches the
\* caller of get_all_organizations.
C5_AuthFailsFast ==
    \A i \in Attempts :
        (IsResponse(i) /\ StatusOf(i) \in {401, 403}) =>
            /\ responses[i].slept = <<>>
            /\ EndedRaising(i, "ValueError")
            /\ physical = i
            /\ fetched.kind # "none" => fetched = Raised("ValueError")

\* a 401 on the first attempt with retries left, propagated to the caller
C5_Witness ==
    /\ max_retries = 2
    /\ Len(responses) = 1
    /\ IsResponse(1) /\ StatusOf(1) = 401
    /\ fetched = Raised("ValueError")

IsNetworkFailure(i) == responses[i].resp.kind \in NetworkFailures

C6_BackoffState ==
    /\ physical <= max_retries + 1
    /\ physical = Len(responses)
    /\ \A i \in Attempts : IsNetworkFailure(i) =>
           /\ i - 1 < max_retries =>
                  /\ responses[i].slept = <<retry_delay * (2 ^ (i - 1))>>
                  /\ FollowedByAttempt(i)
           /\ i - 1 = max_retries =>
                  /\ responses[i].slept = <<>>
                  /\ EndedRaising(i, responses[i].resp.kind)

\* C6: a network failure on attempt k < max_retries is followed by a sleep
\* of retry_delay * 2^k and a new attempt, one on attempt max_retries is
\* propagated without a sleep; a call issues at most max_retries + 1
\* physical requests and always ends.
C6_Backoff ==
    /\ []C6_BackoffState
    /\ (reqPc = "loop") ~> (reqPc \in {"returned", "raised"})

\* every attempt of the budget failed on the network
C6_Witness ==
    /\ max_retries = 2
    /\ Len(responses) = 3
    /\ \A i \in Attempts : IsNetworkFailure(i)
    /\ reqPc = "raised"
    /\ TotalSlept = 3 * retry_delay

\* C7: a response whose status is not 2xx and not 429, 401 or 403 takes the
\* generic retry path: backoff sleep and retry, or on the last attempt
\* propagation of the HTTP failure.
C7_OtherStatusRetried ==
    \A i \in Attempts :
        (/\ IsResponse(i)
         /\ ~(StatusOf(i) >= 200 /\ StatusOf(i) < 300)
         /\ StatusOf(i) \notin {429, 401, 403}) =>
            /\ i - 1 < max_retries =>
                   /\ responses[i].slept = <<retry_delay * (2 ^ (i - 1))>>
                   /\ FollowedByAttempt(i)
            /\ i - 1 = max_retries =>
                   /\ responses[i].slept = <<>>
                   /\ EndedRaising(i, "HTTPError")

\* C8: get_all_organizations returns only JSON objects that have both Count
\* and Organisations.
C8_ShapeChecked ==
    fetched.kind = "data" =>
        /\ fetched.data.object
        /\ {"Count", "Organisations"} \subseteq fetched.data.keys

(***************************************************************************)
(* Properties of collect_organizations (SpecRun)                           *)
(***************************************************************************)
PhaseOrder == <<"fetch", "validate", "persist_data", "persist_state", "report",
                "completed">>

IsPrefix(s, t) == Len(s) <= Len(t) /\ \A i \in 1..Len(s) : s[i] = t[i]

\* C9: the phases of a run are entered in the fixed order, and a failure in
\* a phase moves the run to FAILED before any later phase.
C9_PhasesInOrder ==
    /\ \/ IsPrefix(phases, PhaseOrder)
       \/ /\ phases # <<>>
          /\ phases[Len(phases)] = "failed"
          /\ IsPrefix(SubSeq(phases, 1, Len(phases) - 1), PhaseOrder)
    /\ failedWrites # {} => runPc = "failed"

FetchedEmpty == raw_data.object /\ organizations = <<>>

\* C10: when test_connection returned False or the fetched list is empty,
\* the run has failed with an error message and has written no file.
C10_FatalBeforeWrites ==
    (connected = "false" \/ FetchedEmpty) =>
        /\ runPc = "failed"
        /\ outcome.returned /\ ~outcome.success /\ outcome.error # ""
        /\ written = {}
        /\ failedWrites = {}

\* a second run fetched an empty list and left the first run's files alone
C10_Witness ==
    /\ runs = 2
    /\ connected = "true"
    /\ FetchedEmpty
    /\ runPc = "failed"
    /\ outcome.error = "No organizations data received from API"
    /\ files["main_data"] = "ok"

IdsOf(orgs) == [i \in 1..Len(orgs) |-> orgs[i].Id]

DataFiles == {"main_data", "metadata"}

\* C13: the collection state is written only in a run that wrote both the
\* canonical file and the metadata file successfully, and after them; a run
\* whose data persistence failed writes no state.
C13_StateAfterData ==
    /\ "state" \in written =>
           /\ DataFiles \subseteq written
           /\ DataFiles \cap failedWrites = {}
    /\ DataFiles \cap failedWrites # {} => "state" \notin written

\* C14: a write failure on the canonical file, the metadata file or the
\* collection state aborts the run, which returns success = false.
C14_WriteFailureAborts ==
    (DataFiles \cup {"state"}) \cap failedWrites # {} =>
        /\ runPc = "failed"
        /\ outcome.returned /\ ~outcome.success

Finished == runPc \in {"completed", "failed"}
InRun == runPc \in {"test", "fetch", "process", "save", "state", "report"}

\* C15: collect_organizations always returns a result: a finished call has
\* returned a dictionary with end_time set; a failure carries an error
\* string and the counters accumulated so far; and a call in which an
\* exception was raised while persisting or reporting returns success =
\* false.
C15_AlwaysResult ==
    /\ Finished =>
           /\ outcome.returned
           /\ collection_stats.start_time >= 0
           /\ collection_stats.end_time >= collection_stats.start_time
    /\ (outcome.returned /\ ~outcome.success) =>
           /\ outcome.error # ""
           /\ outcome.organizations_collected =
                  collection_stats.organizations_processed
           /\ outcome.offices_collected = collection_stats.offices_processed
    /\ (outcome.returned /\ failedWrites # {}) => ~outcome.success

\* C16: a session is open while a run is under way and has been closed when
\* collect_organizations returns, on success and on every failure.
C16_SessionClosed ==
    /\ InRun => session = "open"
    /\ Finished => session # "open"
    /\ (Finished /\ api_key) => session = "closed"

\* a run that failed while processing the fetched organisations
C16_Witness ==
    /\ runPc = "failed"
    /\ phases = <<"fetch", "validate", "failed">>
    /\ session = "closed"

EmittedOffices == SumSeq([i \in 1..Len(processed) |-> Len(processed[i].Offices)])

\* C17: the counters are per run: they are zero when a run starts, and the
\* result of a run counts the organisations and offices of that run only.
C17_PerRunCounters ==
    /\ runPc = "test" =>
           /\ collection_stats.organizations_processed = 0
           /\ collection_stats.offices_processed = 0
           /\ collection_stats.total_offices = 0
           /\ collection_stats.errors = 0
           /\ collection_stats.validation_errors = 0
           /\ collection_stats.api_calls = 0
    /\ runPc = "completed" =>
           /\ outcome.organizations_collected = Len(processed)
           /\ outcome.offices_collected = EmittedOffices

\* what a run does when it starts from nothing: the connection is tested,
\* the list is fetched, processed and persisted in this run
RunIsFresh ==
    /\ runPc \in {"fetch", "process", "save", "state", "report", "completed"} =>
           connected = "true"
    /\ runPc \in {"process", "save", "state", "report", "completed"} =>
           /\ raw_data.object
           /\ organizations # <<>>
           /\ organizations = raw_data.Organisations
    /\ runPc \in {"save", "state", "report", "completed"} =>
           IdsOf(processed) = IdsOf(SelectSeq(organizations, LAMBDA o : o.mapping))
    /\ runPc = "completed" =>
           /\ phases = PhaseOrder
           /\ written = FileRoles
           /\ outcome.returned /\ outcome.success
    /\ runPc = "failed" =>
           /\ outcome.returned /\ ~outcome.success
           /\ outcome.error # ""

\* C18: a run with resume = True does what a run with resume = False does,
\* whatever state was loaded: no step is skipped and the result is that of
\* a fresh collection.
C18_ResumeIsFresh == runs > 0 => RunIsFresh

\* a resumed run that loaded a completed state and ran to the end
C18_Witness ==
    /\ resume
    /\ saved_state = "completed"
    /\ runPc = "completed"
    /\ phases = PhaseOrder
    /\ written = FileRoles

(***************************************************************************)
(* Properties of _process_organization_data and of the pipeline (SpecPipe) *)
(***************************************************************************)
Processed == pipePc \in {"processed", "saved", "generated"}

\* the offices of an input organisation that pass _validate_office
ValidOffices(org) == SelectSeq(org.Offices, LAMBDA o : ValidateOffice(o).valid)

DroppedOffices == [i \in 1..Len(organizations) |->
                      Len(organizations[i].Offices)
                      - Len(ValidOffices(organizations[i]))]

HasEntry(id, type) ==
    \E k \in 1..Len(validation_summary.validation_errors) :
        /\ validation_summary.validation_errors[k].organization_id = id
        /\ validation_summary.validation_errors[k].type = type

\* C11: after processing, every input organisation is in the output exactly
\* once and in input order, valid or not (an invalid one is recorded in
\* validation_errors and counted as processed); its emitted office list is
\* the subsequence of its input offices that pass office validation, and
\* every dropped office is counted once in invalid_offices.
C11_AllOrganizationsEmitted ==
    Processed =>
        /\ IdsOf(processed) = IdsOf(organizations)
        /\ collection_stats.organizations_processed = Len(organizations)
        /\ \A i \in 1..Len(organizations) :
               /\ processed[i].Offices = ValidOffices(organizations[i])
               /\ ~ValidateOrganization(organizations[i]).valid
                      => HasEntry(organizations[i].Id, "organization")
        /\ validation_summary.invalid_offices = SumSeq(DroppedOffices)

\* C12: an exception raised while one organisation is processed is caught
\* at the per-organisation boundary: it adds one to the error counter and
\* one entry to the errors log, the later organisations are still processed
\* and the exception does not leave _process_organization_data.
C12_ExceptionsContained ==
    /\ pipePc # "raised"
    /\ collection_stats.errors = Len(errors_log)
    /\ Processed =>
           \A i \in 1..Len(organizations) :
               \/ \E j \in 1..Len(processed) : processed[j].Id = organizations[i].Id
               \/ \E j \in 1..Len(errors_log) :
                      errors_log[j].organization_id = organizations[i].Id


\* the dataset of the end-to-end scenario: an organisation with registration
\* number "123456" and an office at "SW1A 1AA", and one with registration
\* number "12" and an office whose postcode is "BAD"
Scenario ==
    <<OrgWith(1, TRUE, Str(Sra123456), "list", <<GoodOffice(1)>>),
      OrgWith(2, TRUE, Str(Sra12), "list", <<Office(1, TRUE, Str(PostcodeBAD))>>)>>

\* an office record whose postcode is a non-empty string that is no UK
\* postcode
MalformedPostcode(o) ==
    /\ o.mapping
    /\ o.Postcode.t = "string"
    /\ Truthy(o.Postcode)
    /\ ~ValidatePostcodeUk(o.Postcode.s)

\* an office whose only defect is its postcode: it passes the required-field
\* and type rules in force
OnlyPostcodeDefect(o) ==
    /\ MalformedPostcode(o)
    /\ validation_rules.sra_office.configured =>
           /\ RequiredErrors(o, "sra_office",
                  validation_rules.sra_office.required_fields) = <<>>
           /\ TypeErrors(o, "sra_office",
                  validation_rules.sra_office.field_types) = <<>>

SeqRange(q) == {q[i] : i \in 1..Len(q)}

OfficeEntries ==
    SelectSeq(validation_summary.validation_errors, LAMBDA e : e.type = "office")

\* C19 as stated: in the scenario the office with postcode "BAD" is absent
\* from the emitted office list of its organisation and is counted under
\* invalid_offices, and the organisation with registration number "12" is
\* emitted.
C19_Original ==
    (Processed /\ organizations = Scenario) =>
        /\ IdsOf(processed) = <<1, 2>>
        /\ processed[2].SraNumber = Str(Sra12)
        /\ processed[2].Offices = <<>>
        /\ validation_summary.invalid_offices = 1

\* C19: a malformed postcode is a warning: in every emitted organisation the
\* offices whose only defect is a malformed postcode are still in the office
\* list, no entry of validation_errors is about such an office and
\* invalid_offices counts those entries only; in the scenario both organisations are emitted, the
\* second with its office and flagged when rules for organisations are
\* configured, with two valid and no invalid office.
C19_MalformedPostcodeKept ==
    Processed =>
        /\ \A j \in 1..Len(processed) :
               \A o \in SeqRange(organizations[processed[j].Id].Offices) :
                   (processed[j].OfficesType = "list" /\ OnlyPostcodeDefect(o))
                       => o \in SeqRange(processed[j].Offices)
        /\ \A e \in SeqRange(OfficeEntries) :
               ~OnlyPostcodeDefect(organizations[e.organization_id].Offices[e.office_id])
        /\ validation_summary.invalid_offices = Len(OfficeEntries)
        /\ organizations = Scenario =>
               /\ IdsOf(processed) = <<1, 2>>
               /\ processed[2] = Scenario[2]
               /\ validation_summary.valid_offices = 2
               /\ validation_summary.invalid_offices = 0
               /\ validation_rules = RulesStrict => HasEntry(2, "organization")

\* the scenario processed under the strict rules
C19_Witness ==
    /\ Processed
    /\ organizations = Scenario
    /\ validation_rules = RulesStrict
    /\ Len(processed[2].Offices) = 1
    /\ MalformedPostcode(processed[2].Offices[1])

\* C20: the artifacts generated from the file the collector saved hold every
\* organisation of that file: the compact count and the number of
\* relational organisations are the number of organisations persisted.
C20_CanonicalFileIsInput ==
    (pipePc = "generated" /\ canonical.status = "ok"
         /\ artifacts.status = "generated") =>
        /\ artifacts.count = Len(canonical.data.organizations)
        /\ Len(artifacts.organizations) = Len(canonical.data.organizations)
        /\ Len(artifacts.db_organizations) = Len(canonical.data.organizations)


(***************************************************************************)
(* Properties of the output generator (SpecOut)                            *)
(***************************************************************************)
\* the list the generator read from its input file
InputOrganizations == DictGet(canonical.data, InputKey, <<>>)

\* C21: every office of the relational offices file names, as its
\* organization_id, the id of a record of the relational organisations
\* file: there is no orphan.
C21_NoOrphans ==
    \A k \in 1..Len(artifacts.db_offices) :
        \E j \in 1..Len(artifacts.db_organizations) :
            artifacts.db_organizations[j].id = artifacts.db_offices[k].organization_id

\* two organisations, one without an Id, with three offices between them
C21_Witness ==
    /\ artifacts.status = "generated"
    /\ Len(artifacts.db_organizations) = 2
    /\ Len(artifacts.db_offices) = 3
    /\ \E k \in 1..3 : artifacts.db_offices[k].organization_id = NoneId
    /\ \E k \in 1..3 : artifacts.db_offices[k].organization_id # NoneId


\* C22: the count field of the compact file is the number of entries of its
\* organizations array, whatever the dataset: empty, or with organisations
\* that lack their Id, their score or their Offices.
C22_CountMatches == artifacts.count = Len(artifacts.organizations)

\* a compact file of two organisations, one without an Id, one without
\* DataQualityScore and without Offices
C22_Witness ==
    /\ artifacts.status = "generated"
    /\ artifacts.count = 2
    /\ \E i \in 1..2 : artifacts.organizations[i].id = NoneId
    /\ \E i \in 1..2 : /\ "DataQualityScore" \notin DOMAIN InputOrganizations[i]
                       /\ InputOrganizations[i].OfficesType = "absent"


\* the artifacts apart from the time of their generation
Content(a) == [a EXCEPT !.generated = 0]

\* the identifiers of the input organisations, in input order
InputIds ==
    [i \in 1..Len(InputOrganizations) |-> DictGet(InputOrganizations[i], "Id", NoneId)]

\* per input organisation and in input order, the identifiers of its offices
InputOfficeIds ==
    Concat([i \in 1..Len(InputOrganizations) |->
               [j \in 1..Len(InputOrganizations[i].Offices) |->
                   <<DictGet(InputOrganizations[i], "Id", NoneId),
                     InputOrganizations[i].Offices[j].OfficeId>>]])

\* a run of the generator on the dataset the artifacts came from
Rerun == pipePc = "generated" /\ generations' = generations + 1

C24_QualityScoreDefault ==
    (pipePc = "generated" /\ artifacts.status = "generated") =>
        \A i \in 1..Len(artifacts.organizations) :
            /\ artifacts.organizations[i].quality_score.t = "integer"
            /\ "DataQualityScore" \notin DOMAIN InputOrganizations[i] =>
                   artifacts.organizations[i].quality_score = Zero
            /\ artifacts.db_organizations[i].data_quality_score =
                   artifacts.organizations[i].quality_score


(***************************************************************************)
(* Properties of the validator (SpecVal)                                   *)
(***************************************************************************)
Called(fn) == valPc # "idle" /\ valCall.fn = fn

\* C25: validate_record never raises; it returns valid = true exactly when
\* its list of errors is empty, so that warnings alone leave a record valid.
C25_ValidIffNoErrors ==
    Called("validate_record") =>
        /\ valPc = "returned"
        /\ ~valResult.raised
        /\ valResult.value <=> valResult.errors = <<>>

\* C26: validate_solicitor_number accepts a text exactly when it is made of
\* 6 or 7 decimal digits and of nothing else.
C26_SixOrSevenDigits ==
    Called("validate_solicitor_number") =>
        (valResult.value <=> (Len(valCall.arg) \in {6, 7} /\ AllDigits(valCall.arg)))

\* a number in national format: a 0, a digit that is not 0 and 8 or 9 more
\* digits, once blanks, dashes and parentheses are taken out
NationalFormat(phone) ==
    LET c == Cleaned(phone)
    IN  /\ Len(c) \in {10, 11}
        /\ c[1] = "0"
        /\ c[2] \in Digits \ {"0"}
        /\ AllDigits(c)

\* C27: validate_phone_uk accepts the numbers in national format with a
\* leading 0 ("07123456789", "0207123456") and the +44 form
\* ("+447123456789"), and rejects "123" and "invalid".
C27_NationalFormatAccepted ==
    Called("validate_phone_uk") =>
        /\ NationalFormat(valCall.arg) => valResult.value
        /\ valCall.arg \in {Phone07123456789, Phone0207123456,
                            PhonePlus447123456789} => valResult.value
        /\ valCall.arg \in {Phone123, PhoneInvalid} => ~valResult.value


(***************************************************************************)
(* The counters of _process_organization_data (SpecPipe) and the state     *)
(* file (SpecRun)                                                          *)
(***************************************************************************)
\* C28: when processing has finished, each office counted in total_offices
\* is counted as valid or as invalid, each input organisation as valid or as
\* invalid, and offices_processed is the number of offices in the emitted
\* office lists.
C28_SummaryAdds ==
    Processed =>
        /\ validation_summary.valid_offices + validation_summary.invalid_offices
               = validation_summary.total_offices
        /\ validation_summary.valid_organizations
               + validation_summary.invalid_organizations = Len(organizations)
        /\ collection_stats.offices_processed = EmittedOffices

\* C29: an input organisation is counted as processed or as a processing
\* error and never as both: the two counters add up to the number of input
\* organisations, and the emitted list has organizations_processed entries.
C29_ProcessedOrError ==
    Processed =>
        /\ collection_stats.organizations_processed + collection_stats.errors
               = Len(organizations)
        /\ Len(processed) = collection_stats.organizations_processed


\* sra_collector.py:359-376: get_collection_status loads the state file; a
\* file that cannot be parsed counts as no previous collection, and every
\* state the collector writes has collection_completed = True (line 319)
GetCollectionStatus ==
    [has_previous_collection |-> LoadCollectionState(files["state"]) # "none",
     last_collection_completed |-> LoadCollectionState(files["state"]) = "completed"]

\* C30: a failed run has not written the state file; a state file on disk
\* is a complete one, with collection_completed = true; and after a run that
\* returned success get_collection_status reports that run, whose state file
\* is the one on disk.
C30_StateOfLastSuccess ==
    /\ (outcome.returned /\ ~outcome.success) => "state" \notin written
    /\ files["state"] \in {"absent", "ok"}
    /\ (outcome.returned /\ outcome.success) =>
           /\ GetCollectionStatus.has_previous_collection
           /\ GetCollectionStatus.last_collection_completed
           /\ "state" \in written \ failedWrites

====
